---- MODULE Spec2Model ----
(***************************************************************************)
(* Map declarations embedded in document content: the fenced-block         *)
(* pipeline (processYamlMatches + ContentWithMaps), the inline-tag         *)
(* pipeline (processTagMatches + ContentWithMaps) and the life cycle of    *)
(* the ArcGISMap widget (useEffect / initializeMap / cleanup), and what    *)
(* the widgets of one page build from their configurations (key, basemap,  *)
(* center, UI components, layers).                                         *)
(*                                                                         *)
(* A content string is a sequence of tokens <<kind, n>>.  Every token      *)
(* stands for a piece of text none of the patterns can match across:       *)
(*   <<"fence", 0>>        ```                                             *)
(*   <<"lang", 0>>         arcgis-map\n       (after a fence: an opening)  *)
(*   <<"lang", 1>>         map-arcgis-yaml\n                               *)
(*   <<"yaml", n>>         a line of YAML that parses (n names the line)   *)
(*   <<"badyaml", 0>>      a line of YAML the parser rejects               *)
(*   <<"linkyaml", n>>     a YAML line whose value is written [text](url)  *)
(*   <<"urlyaml", n>>      the same line with the bare url                 *)
(*   <<"text", 0>>         ordinary prose                                  *)
(*   <<"space", 0>>        white space only                                *)
(*   <<"placeholder", n>>  the text __MAP_PLACEHOLDER_n__                  *)
(*   <<"arcgis-map", a>>   <arcgis-map ATTRS_a />                          *)
(*   <<"ArcgisMap", a>>    <ArcgisMap ATTRS_a />                           *)
(*   <<"ArcGISMap", a>>    <ArcGISMap ATTRS_a />                           *)
(***************************************************************************)
EXTENDS Integers, Sequences, FiniteSets, TLC

VARIABLES
    variant,           \* which pipeline runs: "yaml", "yaml-old" or "tag"
    content,           \* the argument of ContentWithMaps
    pc,                \* position in ContentWithMaps / processMapContent
    loop,              \* which of TagRegexes processTagMatches is running
    lastIndex,         \* the matcher's cursor (0-based offset)
    processedContent,  \* the working copy
    mapComponents,     \* the component list
    currentIndex,      \* the placeholder counter
    rendered,          \* the children ContentWithMaps returns
    history,           \* what each loop iteration matched (for the properties)
    widget,            \* which ArcGISMap runs: "direct" or "loader"
    life,              \* "new", "mounted" or "unmounted"
    props,             \* the props of the last render
    loadError,         \* the loadError state: "none" or the kind of message
    isLoading,         \* the isLoading state
    refSet,            \* whether mapRef.current holds the container element
    loaderMounted,     \* whether the MapLoader child is mounted
    effects,           \* the effect closures that started an initialization
    views,             \* the MapView objects constructed so far
    changes,           \* how many times the props changed
    configs,           \* the yamlConfig of each declaration on the page
    apiKey,            \* config.apiKey of @arcgis/core/config (one per page)
    built,             \* what each declaration's widget has built so far
    attributeString,   \* the argument of a call of extractMapParams
    extracted,         \* what that call returned
    usage,             \* the props of an ArcGISMap used without a configuration
    usageView,         \* what that widget constructed its view with
    previous,          \* what the call of processMapContent before this one returned
    yamlInput,         \* the test page: the text in the textarea
    mapConfig,         \* the test page: the configuration handed to the widget
    error,             \* the test page: the error message shown, or "null"
    attempts,          \* how many times the test page has parsed its text
    outcomes           \* how each of these parses ended: "parsed" or "threw"

pvars == <<variant, content, pc, loop, lastIndex, processedContent, mapComponents,
           currentIndex, rendered, history>>

wvars == <<widget, life, props, loadError, isLoading, refSet, loaderMounted,
           effects, views, changes>>

mvars == <<configs, apiKey, built>>

paramVars == <<attributeString, extracted>>

usageVars == <<usage, usageView>>

callVars == <<previous>>

testVars == <<yamlInput, mapConfig, error, attempts, outcomes>>

xvars == <<paramVars, usageVars, callVars, testVars>>

vars == <<pvars, wvars, mvars, xvars>>

\* Bounds of the model.
MaxSegs == 4
MaxChanges == 2
MaxMaps == 2
MaxAttempts == 5

----------------------------------------------------------------------------
(* Tokens *)

Fence == <<"fence", 0>>
LangArcgis == <<"lang", 0>>
LangYaml == <<"lang", 1>>
Text == <<"text", 0>>
Space == <<"space", 0>>
BadYaml == <<"badyaml", 0>>
YamlLine(n) == <<"yaml", n>>
LinkYaml(n) == <<"linkyaml", n>>
UrlYaml(n) == <<"urlyaml", n>>
Placeholder(i) == <<"placeholder", i>>
Tag(spelling, a) == <<spelling, a>>

----------------------------------------------------------------------------
(* Fenced-block scanner *)

\* The pipelines: the fenced-block pipeline, its older copy (one language tag,
\* no link clean-up, every literal part rendered) and the inline-tag pipeline.
IsYaml(v) == v \in {"yaml", "yaml-old"}

\* The language tags MAP_YAML_REGEX accepts after the opening fence.
YamlLangs(v) == IF v = "yaml" THEN {LangArcgis, LangYaml} ELSE {LangYaml}

NoMatch == [found |-> FALSE, index |-> 0, end |-> 0, full |-> <<>>, body |-> <<>>]

\* Whether /```(?:map-arcgis-yaml|arcgis-map)\n([\s\S]*?)```/ matches at the
\* 1-based position p: an opening fence, a language line, and a later fence.
YamlMatchAt(s, p, v) ==
    /\ p + 2 <= Len(s)
    /\ s[p] = Fence
    /\ s[p + 1] \in YamlLangs(v)
    /\ \E q \in (p + 2)..Len(s) : s[q] = Fence

\* MAP_YAML_REGEX.exec(s) with lastIndex = from: the leftmost match at or after
\* the cursor, its body lazy (up to the first following fence).
YamlExec(s, from, v) ==
    LET starts == {p \in (from + 1)..Len(s) : YamlMatchAt(s, p, v)}
    IN  IF starts = {} THEN NoMatch
        ELSE LET p == CHOOSE x \in starts : \A y \in starts : x <= y
                 q == CHOOSE x \in (p + 2)..Len(s) :
                          /\ s[x] = Fence
                          /\ \A y \in (p + 2)..Len(s) : s[y] = Fence => x <= y
             IN  [found |-> TRUE, index |-> p - 1, end |-> q,
                  full |-> SubSeq(s, p, q), body |-> SubSeq(s, p + 2, q - 1)]

----------------------------------------------------------------------------
(* String operations *)

\* The 1-based positions at which pat occurs in s.
Occurrences(s, pat) ==
    {p \in 1..(Len(s) - Len(pat) + 1) : SubSeq(s, p, p + Len(pat) - 1) = pat}

\* String.prototype.replace(pat, rep) with a string pattern: the first
\* occurrence only; s itself when pat does not occur.
ReplaceFirst(s, pat, rep) ==
    LET occ == Occurrences(s, pat)
    IN  IF occ = {} THEN s
        ELSE LET p == CHOOSE x \in occ : \A y \in occ : x <= y
             IN  SubSeq(s, 1, p - 1) \o rep \o SubSeq(s, p + Len(pat), Len(s))

\* yamlContent.replace(/\[([^\]]+)\]\(([^\)]+)\)/g, '$2'): every [text](url)
\* becomes the bare url.  The older copy hands the body to the parser as it is.
CleanLinks(body, v) ==
    IF v = "yaml"
    THEN [i \in 1..Len(body) |->
             IF body[i][1] = "linkyaml" THEN UrlYaml(body[i][2]) ELSE body[i]]
    ELSE body

IsBlank(s) == \A i \in 1..Len(s) : s[i] = Space

\* yaml.load(text): throws on a line it cannot parse (a rejected line, or
\* link markup left in a value), gives undefined for a blank document and the
\* document's value otherwise.  The value is named by the document's lines.
YamlLoad(text) ==
    IF \E i \in 1..Len(text) : text[i][1] \in {"badyaml", "linkyaml"}
    THEN [threw |-> TRUE, defined |-> FALSE, value |-> <<>>]
    ELSE IF IsBlank(text)
    THEN [threw |-> FALSE, defined |-> FALSE, value |-> <<>>]
    ELSE [threw |-> FALSE, defined |-> TRUE,
          value |-> SelectSeq(text, LAMBDA t : t # Space)]

----------------------------------------------------------------------------
(* processYamlMatches: one iteration of the while loop *)

\* The <ArcGISMap key=... yamlConfig=... /> element pushed on mapComponents.
MapElement(key, config) == [key |-> key, config |-> config]

\* Variants of YamlIteration with a slip in them: the replacement made before
\* the body is parsed, and the counter advanced in every iteration.
YamlIterationReplacesFirst(m, processed, comps, idx, v) ==
    LET parsedConfig == YamlLoad(CleanLinks(m.body, v))
        replaced == ReplaceFirst(processed, m.full, <<Placeholder(idx)>>)
    IN  IF parsedConfig.threw \/ ~parsedConfig.defined
        THEN [ok |-> FALSE, escaped |-> FALSE, processed |-> replaced,
              comps |-> comps, idx |-> idx, token |-> -1, config |-> <<>>]
        ELSE [ok |-> TRUE, escaped |-> FALSE, processed |-> replaced,
              comps |-> Append(comps, MapElement(idx, parsedConfig.value)),
              idx |-> idx + 1, token |-> idx, config |-> parsedConfig.value]

YamlIterationCountsAll(m, processed, comps, idx, v) ==
    LET parsedConfig == YamlLoad(CleanLinks(m.body, v))
    IN  IF parsedConfig.threw \/ ~parsedConfig.defined
        THEN [ok |-> FALSE, escaped |-> FALSE, processed |-> processed,
              comps |-> comps, idx |-> idx + 1, token |-> -1, config |-> <<>>]
        ELSE [ok |-> TRUE, escaped |-> FALSE,
              processed |-> ReplaceFirst(processed, m.full, <<Placeholder(idx)>>),
              comps |-> Append(comps, MapElement(idx, parsedConfig.value)),
              idx |-> idx + 1, token |-> idx, config |-> parsedConfig.value]

\* The body of the try block for the match m.  yaml.load may throw, and reading
\* parsedConfig.center of an undefined value throws; both happen before the
\* replacement, and the catch logs the error and lets the loop go on.
YamlIteration(m, processed, comps, idx, v) ==
    LET parsedConfig == YamlLoad(CleanLinks(m.body, v))
    IN  IF parsedConfig.threw \/ ~parsedConfig.defined
        THEN [ok |-> FALSE, escaped |-> FALSE, processed |-> processed,
              comps |-> comps, idx |-> idx, token |-> -1, config |-> <<>>]
        ELSE [ok |-> TRUE, escaped |-> FALSE,
              processed |-> ReplaceFirst(processed, m.full, <<Placeholder(idx)>>),
              comps |-> Append(comps, MapElement(idx, parsedConfig.value)),
              idx |-> idx + 1, token |-> idx, config |-> parsedConfig.value]

----------------------------------------------------------------------------
(* Inline-tag scanner and processTagMatches *)

\* MAP_TAG_REGEX, ARCGISMAP_TAG_REGEX, ARCGIS_MAP_TAG_REGEX, in the order
\* processMapContent runs them.
TagRegexes == <<"arcgis-map", "ArcgisMap", "ArcGISMap">>

\* regex.exec(s) for createMapTagRegex(tagName) with lastIndex = from.
TagExec(s, tagName, from) ==
    LET starts == {p \in (from + 1)..Len(s) : s[p][1] = tagName}
    IN  IF starts = {} THEN NoMatch
        ELSE LET p == CHOOSE x \in starts : \A y \in starts : x <= y
             IN  [found |-> TRUE, index |-> p - 1, end |-> p,
                  full |-> <<s[p]>>, body |-> <<s[p]>>]

\* A JavaScript number: a finite number or NaN.
Num(n) == <<"num", n>>
NaN == <<"nan", 0>>
Undefined == <<"undefined", 0>>

\* parseFloat(part.trim()) of a piece of text: <<"num", n>> is the numeral of
\* n, blanks around it or not; <<"junk", 0>> is text that does not start with a
\* numeral; <<"empty", 0>> is the empty string.
ParseFloat(text) == IF text[1] = "num" THEN Num(text[2]) ELSE NaN

\* parseInt(text, 10) of such a piece of text.
ParseInt(text) == IF text[1] = "num" THEN Num(text[2]) ELSE NaN

\* Attribute names, letter by letter (the patterns of extractMapParams are
\* not anchored, so what counts is how a name ends).
NameLatitude == <<"l", "a", "t", "i", "t", "u", "d", "e">>
NameLat == <<"l", "a", "t">>
NameLongitude == <<"l", "o", "n", "g", "i", "t", "u", "d", "e">>
NameLng == <<"l", "n", "g">>
NameLong == <<"l", "o", "n", "g">>
NameZoom == <<"z", "o", "o", "m">>
NameZ == <<"z">>
NameBasemap == <<"b", "a", "s", "e", "m", "a", "p">>
NameMap == <<"m", "a", "p">>
NameHeight == <<"h", "e", "i", "g", "h", "t">>
NameH == <<"h">>
NameWidth == <<"w", "i", "d", "t", "h">>
NameW == <<"w">>

\* The alternatives of each field's pattern.
Synonyms(field) ==
    CASE field = "latitude" -> {NameLatitude, NameLat}
      [] field = "longitude" -> {NameLongitude, NameLng, NameLong}
      [] field = "zoom" -> {NameZoom, NameZ}
      [] field = "basemap" -> {NameBasemap, NameMap}
      [] field = "height" -> {NameHeight, NameH}
      [] OTHER -> {NameWidth, NameW}

\* One attribute of an attribute string: name="text" (quoted) or name={text}
\* (braced).  The text is <<"num", n>>, a word <<"junk", k>>, nothing
\* (<<"empty", 0>>), the word k followed by an apostrophe and more
\* (<<"apos", k>>) or the word k followed by a closing brace and more
\* (<<"brace", k>>).
Attribute(name, form, text) == [name |-> name, form |-> form, text |-> text]

\* What the value part of a pattern captures from an attribute: group 1 is
\* ["']([^"']+)["'], group 2 is \{([^}]+)\}; <<>> when neither matches.
Capture(attr) ==
    IF attr.text[1] = "empty" THEN <<>>
    ELSE IF attr.form = "quoted" /\ attr.text[1] = "apos" THEN <<"junk", attr.text[2]>>
    ELSE IF attr.form = "braced" /\ attr.text[1] = "brace" THEN <<"junk", attr.text[2]>>
    ELSE attr.text

EndsWith(s, t) == Len(t) <= Len(s) /\ SubSeq(s, Len(s) - Len(t) + 1, Len(s)) = t

\* ATTRS_a, the attribute string of a tag: its attributes in the order they
\* are written.
TagAttributes(a) ==
    CASE a = 1 -> <<Attribute(NameLatitude, "quoted", <<"num", 40>>),
                    Attribute(NameLongitude, "quoted", <<"num", -74>>),
                    Attribute(NameZoom, "quoted", <<"num", 10>>)>>
      [] a = 2 -> <<Attribute(NameLatitude, "quoted", <<"junk", 0>>),
                    Attribute(NameLongitude, "quoted", <<"num", -74>>)>>
      [] a = 3 -> <<Attribute(NameLat, "braced", <<"num", 41>>),
                    Attribute(NameLng, "braced", <<"num", 2>>),
                    Attribute(NameZoom, "quoted", <<"junk", 0>>)>>
      [] OTHER -> <<Attribute(NameLongitude, "quoted", <<"junk", 0>>)>>

\* attributeString.match(regex) for the pattern with the given alternatives:
\* what is captured at the leftmost place where an alternative, the equals sign
\* and a value follow each other, or <<>> when there is no such place.
AttributeMatch(attrs, names) ==
    LET hits == {i \in 1..Len(attrs) :
                    /\ \E n \in names : EndsWith(attrs[i].name, n)
                    /\ Capture(attrs[i]) # <<>>}
    IN  IF hits = {} THEN <<>>
        ELSE Capture(attrs[CHOOSE x \in hits : \A y \in hits : x <= y])

\* extractMapParams(attributeString).
ExtractMapParams(attrs) ==
    LET latMatch == AttributeMatch(attrs, Synonyms("latitude"))
        lngMatch == AttributeMatch(attrs, Synonyms("longitude"))
        zoomMatch == AttributeMatch(attrs, Synonyms("zoom"))
        basemapMatch == AttributeMatch(attrs, Synonyms("basemap"))
        heightMatch == AttributeMatch(attrs, Synonyms("height"))
        widthMatch == AttributeMatch(attrs, Synonyms("width"))
    IN  [latitude |-> IF latMatch # <<>> THEN ParseFloat(latMatch) ELSE Num(0),
         longitude |-> IF lngMatch # <<>> THEN ParseFloat(lngMatch) ELSE Num(0),
         zoom |-> IF zoomMatch # <<>> THEN ParseInt(zoomMatch) ELSE Undefined,
         basemap |-> IF basemapMatch # <<>> THEN basemapMatch ELSE Undefined,
         height |-> IF heightMatch # <<>> THEN heightMatch ELSE Undefined,
         width |-> IF widthMatch # <<>> THEN widthMatch ELSE Undefined]

\* What extractMapParams returns for the attribute string of each tag the
\* contents are written with.
TagParams == [a \in 1..4 |-> ExtractMapParams(TagAttributes(a))]

\* A variant of TagIteration with a slip in it: the matched tag is left in
\* the working copy.
TagIterationLeavesTag(m, processed, comps, idx) ==
    LET params == TagParams[m.full[1][2]]
    IN  [ok |-> TRUE, escaped |-> FALSE,
         processed |-> processed,
         comps |-> Append(comps, MapElement(idx, params)),
         idx |-> idx + 1, token |-> idx, config |-> params]

\* One iteration of the loop of processTagMatches for the match m.
TagIteration(m, processed, comps, idx) ==
    LET params == TagParams[m.full[1][2]]
    IN  [ok |-> TRUE, escaped |-> FALSE,
         processed |-> ReplaceFirst(processed, m.full, <<Placeholder(idx)>>),
         comps |-> Append(comps, MapElement(idx, params)),
         idx |-> idx + 1, token |-> idx, config |-> params]

----------------------------------------------------------------------------
(* ContentWithMaps: the recomposer *)

IsPlaceholder(t) == t[1] = "placeholder"

\* The first position of a placeholder token in s, or 0.
FirstPlaceholder(s) ==
    LET ps == {p \in 1..Len(s) : IsPlaceholder(s[p])}
    IN  IF ps = {} THEN 0 ELSE CHOOSE x \in ps : \A y \in ps : x <= y

\* processedContent.split(/(__MAP_PLACEHOLDER_\d+__)/): the literal parts and,
\* between them, the separators the group captured; a literal part may be empty.
RECURSIVE SplitOnPlaceholders(_)
SplitOnPlaceholders(s) ==
    LET p == FirstPlaceholder(s)
    IN  IF p = 0 THEN <<s>>
        ELSE <<SubSeq(s, 1, p - 1), <<s[p]>>>>
                 \o SplitOnPlaceholders(SubSeq(s, p + 1, Len(s)))

\* part.match(/__MAP_PLACEHOLDER_\d+__/)
PartMatchesPlaceholder(part) == \E i \in 1..Len(part) : IsPlaceholder(part[i])

\* mapComponents[mapIndex]; undefined past the end of the list.
UndefinedElement == [key |-> -1, config |-> <<>>]
ElementAt(comps, mapIndex) ==
    IF mapIndex + 1 <= Len(comps) THEN comps[mapIndex + 1] ELSE UndefinedElement

HtmlChild(part) == [kind |-> "html", text |-> part, map |-> UndefinedElement]
MapChild(elem) == [kind |-> "map", text |-> <<>>, map |-> elem]

\* Whether the variant's recomposer skips a literal part that trims to nothing
\* (the fenced-block recomposer does; the inline-tag one renders every part).
SkipsBlankParts(v) == v = "yaml"

\* contentParts.map(...): a placeholder part takes the next element of
\* mapComponents, any other part is rendered as html; null children are left out.
RECURSIVE RenderParts(_, _, _, _)
RenderParts(parts, comps, mapIndex, v) ==
    IF parts = <<>> THEN <<>>
    ELSE LET part == Head(parts)
         IN  IF PartMatchesPlaceholder(part)
             THEN <<MapChild(ElementAt(comps, mapIndex))>>
                      \o RenderParts(Tail(parts), comps, mapIndex + 1, v)
             ELSE IF SkipsBlankParts(v) /\ IsBlank(part)
             THEN RenderParts(Tail(parts), comps, mapIndex, v)
             ELSE <<HtmlChild(part)>>
                      \o RenderParts(Tail(parts), comps, mapIndex, v)

\* ContentWithMaps without its early return for an empty component list.
ContentWithMapsAlwaysSplits(c, processed, comps, v) ==
    RenderParts(SplitOnPlaceholders(processed), comps, 0, v)

\* What ContentWithMaps returns for the result of processMapContent.
ContentWithMaps(c, processed, comps, v) ==
    IF Len(comps) = 0 THEN <<HtmlChild(c)>>
    ELSE RenderParts(SplitOnPlaceholders(processed), comps, 0, v)

----------------------------------------------------------------------------
(* The contents the pipelines are run on *)

\* Pieces of fenced-block content: single tokens, and whole declarations.
YamlSegs ==
    { <<Text>>, <<Space>>, <<Placeholder(0)>>, <<Fence>>, <<LangArcgis>>,
      <<YamlLine(1)>>,
      <<Fence, LangArcgis, YamlLine(1), Fence>>,
      <<Fence, LangYaml, YamlLine(2), Fence>>,
      <<Fence, LangArcgis, BadYaml, Fence>>,
      <<Fence, LangYaml, LinkYaml(3), Fence>> }

\* Pieces of inline-tag content.
TagSegs ==
    { <<Text>>, <<Space>>, <<Placeholder(0)>>,
      <<Tag("arcgis-map", 1)>>, <<Tag("arcgis-map", 2)>>,
      <<Tag("ArcgisMap", 3)>>, <<Tag("ArcGISMap", 4)>> }

RECURSIVE Contents(_, _)
Contents(segs, n) ==
    IF n = 0 THEN {<<>>}
    ELSE LET shorter == Contents(segs, n - 1)
         IN  shorter \cup {c \o s : c \in shorter, s \in segs}

----------------------------------------------------------------------------
(* ContentWithMaps(content) as a state machine *)

Entry(m, r) ==
    [index |-> m.index, end |-> m.end, full |-> m.full, ok |-> r.ok,
     token |-> r.token, config |-> r.config]

\* No page of declarations is being built.
PageIdle == configs = <<>> /\ apiKey = 0 /\ built = <<>>

\* Nothing else is going on.
ParamsIdle == attributeString = <<>> /\ extracted = <<>>

\* No widget is being used without a configuration.
UsageIdle == usage = <<>> /\ usageView = <<>>

\* processMapContent has not been called before.
CallsIdle == previous = <<>>

\* The test page is not open.
TestPageIdle ==
    /\ yamlInput = <<>> /\ mapConfig = <<>> /\ error = "null"
    /\ attempts = 0 /\ outcomes = <<>>

ExtrasIdle == ParamsIdle /\ UsageIdle /\ CallsIdle /\ TestPageIdle

\* No widget is under observation while a content string is processed.
NoProps == [latitude |-> 0, longitude |-> 0, zoom |-> 4, yamlConfig |-> 0]

WidgetIdle ==
    /\ widget = "none" /\ life = "new" /\ props = NoProps
    /\ loadError = "none" /\ isLoading = TRUE /\ refSet = FALSE
    /\ loaderMounted = FALSE /\ effects = <<>> /\ views = <<>> /\ changes = 0

Init ==
    /\ WidgetIdle
    /\ PageIdle
    /\ ExtrasIdle
    /\ variant \in {"yaml", "yaml-old", "tag"}
    /\ content \in Contents(IF IsYaml(variant) THEN YamlSegs ELSE TagSegs, MaxSegs)
    /\ pc = "scan"
    /\ loop = 1
    /\ lastIndex = 0
    /\ processedContent = content
    /\ mapComponents = <<>>
    /\ currentIndex = 0
    /\ rendered = <<>>
    /\ history = <<>>

\* processYamlMatches: the loop finds a match (in the untouched copy of the
\* content) and runs the try block on it.
YamlStep(parsed) ==
    /\ IsYaml(variant)
    /\ LET m == YamlExec(content, lastIndex, variant)
           r == YamlIteration(m, processedContent, mapComponents, currentIndex, variant)
       IN  /\ m.found
           /\ r.ok = parsed
           /\ lastIndex' = m.end
           /\ processedContent' = r.processed
           /\ mapComponents' = r.comps
           /\ currentIndex' = r.idx
           /\ pc' = IF r.escaped THEN "threw" ELSE "scan"
           /\ history' = Append(history, Entry(m, r))
    /\ UNCHANGED <<variant, content, loop, rendered, wvars, mvars, xvars>>

YamlMatchParsed ==
    /\ pc = "scan"
    /\ YamlStep(TRUE)

YamlMatchFailed ==
    /\ pc = "scan"
    /\ YamlStep(FALSE)

\* exec returns null: the loop ends and processMapContent returns.
YamlScanEnd ==
    /\ pc = "scan" /\ IsYaml(variant)
    /\ ~YamlExec(content, lastIndex, variant).found
    /\ lastIndex' = 0
    /\ pc' = "scanned"
    /\ UNCHANGED <<variant, content, loop, processedContent, mapComponents,
                   currentIndex, rendered, history, wvars, mvars, xvars>>

\* processTagMatches(regex): exec on the working copy, replace, push, and
\* reset the cursor because the string changed.
TagMatch ==
    /\ pc = "scan" /\ variant = "tag"
    /\ LET m == TagExec(processedContent, TagRegexes[loop], lastIndex)
           r == TagIteration(m, processedContent, mapComponents, currentIndex)
       IN  /\ m.found
           /\ lastIndex' = 0
           /\ processedContent' = r.processed
           /\ mapComponents' = r.comps
           /\ currentIndex' = r.idx
           /\ history' = Append(history, Entry(m, r))
    /\ UNCHANGED <<variant, content, pc, loop, rendered, wvars, mvars, xvars>>

\* exec returns null: this regex is done; after the third, processMapContent
\* returns.
TagLoopEnd ==
    /\ pc = "scan" /\ variant = "tag"
    /\ ~TagExec(processedContent, TagRegexes[loop], lastIndex).found
    /\ lastIndex' = 0
    /\ IF loop < Len(TagRegexes)
       THEN loop' = loop + 1 /\ pc' = pc
       ELSE loop' = loop /\ pc' = "scanned"
    /\ UNCHANGED <<variant, content, processedContent, mapComponents,
                   currentIndex, rendered, history, wvars, mvars, xvars>>

\* ContentWithMaps renders what processMapContent returned.
Render ==
    /\ pc = "scanned"
    /\ rendered' = ContentWithMaps(content, processedContent, mapComponents, variant)
    /\ pc' = "done"
    /\ UNCHANGED <<variant, content, loop, lastIndex, processedContent,
                   mapComponents, currentIndex, history, wvars, mvars, xvars>>

Next ==
    \/ YamlMatchParsed
    \/ YamlMatchFailed
    \/ YamlScanEnd
    \/ TagMatch
    \/ TagLoopEnd
    \/ Render

Spec == Init /\ [][Next]_vars

----------------------------------------------------------------------------
(* The ArcGISMap widget: mount, change of props, asynchronous initialization, *)
(* unmount.  "direct" is the component that initializes the map in its own    *)
(* effect; "loader" is the component that validates the coordinates and       *)
(* leaves the map to its MapLoader child.                                      *)

\* The props the widget is rendered with.
PropsSet ==
    { [latitude |-> 40, longitude |-> -74, zoom |-> 10, yamlConfig |-> 1],
      [latitude |-> 40, longitude |-> -74, zoom |-> 4, yamlConfig |-> 1],
      [latitude |-> 0, longitude |-> 0, zoom |-> 10, yamlConfig |-> 2],
      [latitude |-> 95, longitude |-> -74, zoom |-> 10, yamlConfig |-> 1],
      [latitude |-> 40, longitude |-> 200, zoom |-> 10, yamlConfig |-> 1] }

\* The coordinate test of the effect, negated.
ValidCoords(p) ==
    ~(p.latitude < -90 \/ p.latitude > 90 \/ p.longitude < -180 \/ p.longitude > 180)

\* The closure of one effect run that started an initialization: the props it
\* captured, how far initializeMap / loadMap got, the view it holds (0: none
\* yet) and whether React has yet to call its cleanup.
NewEffect(p) == [props |-> p, stage |-> "importing", view |-> 0, active |-> TRUE]

\* new MapView({container: mapRef.current, ...}) from the closure's values.
NewView(p, ref) == [props |-> p, container |-> ref, destroyed |-> FALSE]

\* React calls the cleanup of every effect run that is still in place.  The
\* cleanup destroys the view the closure holds, if it holds one by then.
ViewsAfterCleanup(es, vs) ==
    [j \in 1..Len(vs) |->
        IF \E i \in 1..Len(es) : es[i].active /\ es[i].view = j
        THEN [vs[j] EXCEPT !.destroyed = TRUE] ELSE vs[j]]

EffectsAfterCleanup(es) == [i \in 1..Len(es) |-> [es[i] EXCEPT !.active = FALSE]]

\* The effect of the direct component for props p: the coordinate test, the
\* test of mapRef.current, and the start of initializeMap.  A load error
\* replaces the container by the error element, which empties the ref.
DirectEffect(p, ref, err, loading, es) ==
    IF ~ValidCoords(p)
    THEN [loadError |-> "coords", isLoading |-> FALSE, refSet |-> FALSE, effects |-> es]
    ELSE IF ~ref
    THEN [loadError |-> "ref", isLoading |-> FALSE, refSet |-> FALSE, effects |-> es]
    ELSE [loadError |-> err, isLoading |-> loading, refSet |-> ref,
          effects |-> Append(es, NewEffect(p))]

PipelineIdle ==
    /\ variant = "none" /\ content = <<>> /\ pc = "idle" /\ loop = 1
    /\ lastIndex = 0 /\ processedContent = <<>> /\ mapComponents = <<>>
    /\ currentIndex = 0 /\ rendered = <<>> /\ history = <<>>

WidgetInit ==
    /\ PipelineIdle
    /\ PageIdle
    /\ ExtrasIdle
    /\ widget \in {"direct", "loader"}
    /\ life = "new" /\ props = NoProps
    /\ loadError = "none" /\ isLoading = TRUE /\ refSet = FALSE
    /\ loaderMounted = FALSE /\ effects = <<>> /\ views = <<>> /\ changes = 0

\* The first render of the loader variant: MapLoader mounts and starts
\* loadMap; then the parent's effect tests the coordinates, and an error
\* un-renders MapLoader.
LoaderMount(p) ==
    /\ refSet' = TRUE
    /\ IF ValidCoords(p)
       THEN /\ effects' = Append(effects, NewEffect(p))
            /\ loaderMounted' = TRUE
            /\ loadError' = loadError
            /\ isLoading' = TRUE
       ELSE \* (the lazily imported MapLoader may or may not have mounted by
            \* the time the error removes it)
            /\ \E started \in BOOLEAN :
                   effects' = IF started
                              THEN EffectsAfterCleanup(Append(effects, NewEffect(p)))
                              ELSE effects
            /\ loaderMounted' = FALSE
            /\ loadError' = "coords"
            /\ isLoading' = FALSE

\* The first render and its effects.
Mount ==
    /\ life = "new"
    /\ \E p \in PropsSet :
        /\ props' = p
        /\ life' = "mounted"
        /\ IF widget = "direct"
           THEN LET r == DirectEffect(p, TRUE, loadError, isLoading, effects)
                IN  /\ loadError' = r.loadError
                    /\ isLoading' = r.isLoading
                    /\ refSet' = r.refSet
                    /\ effects' = r.effects
                    /\ loaderMounted' = FALSE
           ELSE LoaderMount(p)
    /\ UNCHANGED <<widget, views, changes, pvars, mvars, xvars>>

\* A render of the loader variant with other props: MapLoader's effect has no
\* dependencies and does not run again; the parent's effect tests the new
\* coordinates, and an error un-renders MapLoader (whose cleanup then runs).
LoaderChange(p) ==
    IF (p.latitude # props.latitude \/ p.longitude # props.longitude)
           /\ ~ValidCoords(p)
    THEN /\ loadError' = "coords"
         /\ isLoading' = FALSE
         /\ loaderMounted' = FALSE
         /\ views' = IF loaderMounted THEN ViewsAfterCleanup(effects, views)
                     ELSE views
         /\ effects' = EffectsAfterCleanup(effects)
         /\ refSet' = refSet
    ELSE UNCHANGED <<loadError, isLoading, loaderMounted, views, effects, refSet>>

\* A render with other props.
ChangeProps ==
    /\ life = "mounted"
    /\ changes < MaxChanges
    /\ \E p \in PropsSet \ {props} :
        /\ props' = p
        /\ changes' = changes + 1
        /\ IF widget = "direct"
           THEN \* every prop is a dependency: the previous cleanup runs, then
                \* the effect; the container is rendered (and the ref set) only
                \* while loadError is null
                LET r == DirectEffect(p, loadError = "none", loadError, isLoading,
                                      EffectsAfterCleanup(effects))
                IN  /\ views' = ViewsAfterCleanup(effects, views)
                    /\ loadError' = r.loadError
                    /\ isLoading' = r.isLoading
                    /\ refSet' = r.refSet
                    /\ effects' = r.effects
                    /\ loaderMounted' = FALSE
           ELSE LoaderChange(p)
    /\ UNCHANGED <<widget, life, pvars, mvars, xvars>>


\* The imports of initializeMap / loadMap resolve and the rest of the function
\* runs: the view is constructed on whatever mapRef.current holds by now and
\* kept in the closure (where a cleanup that runs later finds it).  loadMap
\* returns without a view when mapRef.current is empty.
ImportsResolve ==
    /\ \E i \in 1..Len(effects) :
        /\ effects[i].stage = "importing"
        /\ IF widget = "loader" /\ ~refSet
           THEN /\ effects' = [effects EXCEPT ![i].stage = "failed"]
                /\ views' = views
                /\ isLoading' = isLoading
           ELSE /\ views' = Append(views, NewView(effects[i].props, refSet))
                /\ effects' = [effects EXCEPT ![i].stage = "created",
                                              ![i].view = Len(views) + 1]
                /\ isLoading' = isLoading
    /\ UNCHANGED <<widget, life, props, loadError, refSet, loaderMounted,
                   changes, pvars, mvars, xvars>>

\* An import rejects, or a constructor throws before there is a view: the
\* catch block.  The direct component sets loadError (the error element then
\* replaces the container); loadMap only ends the loading state.  A state
\* setter does nothing once the component is unmounted.
ImportsFail ==
    /\ \E i \in 1..Len(effects) :
        /\ effects[i].stage = "importing"
        /\ effects' = [effects EXCEPT ![i].stage = "failed"]
    /\ IF life = "mounted"
       THEN /\ isLoading' = FALSE
            /\ IF widget = "direct"
               THEN loadError' = "load" /\ refSet' = FALSE
               ELSE UNCHANGED <<loadError, refSet>>
       ELSE UNCHANGED <<isLoading, loadError, refSet>>
    /\ UNCHANGED <<widget, life, props, loaderMounted, views, changes, pvars, mvars, xvars>>

\* loadMap throws after the view is constructed (adding a widget to view.ui):
\* its catch block destroys the view.
ViewSetupFails ==
    /\ widget = "loader"
    /\ refSet
    /\ \E i \in 1..Len(effects) :
        /\ effects[i].stage = "importing"
        /\ views' = Append(views, [NewView(effects[i].props, refSet)
                                      EXCEPT !.destroyed = TRUE])
        /\ effects' = [effects EXCEPT ![i].stage = "failed",
                                      ![i].view = Len(views) + 1]
    /\ isLoading' = IF life = "mounted" THEN FALSE ELSE isLoading
    /\ UNCHANGED <<widget, life, props, loadError, refSet, loaderMounted,
                   changes, pvars, mvars, xvars>>

\* view.when(...): a view that has a container and was not destroyed becomes
\* ready, and its callback ends the loading state.
ViewReady ==
    /\ \E i \in 1..Len(effects) :
        /\ effects[i].stage = "created"
        /\ views[effects[i].view].container
        /\ ~views[effects[i].view].destroyed
        /\ effects' = [effects EXCEPT ![i].stage = "ready"]
    /\ isLoading' = IF life = "mounted" THEN FALSE ELSE isLoading
    /\ UNCHANGED <<widget, life, props, loadError, refSet, loaderMounted,
                   views, changes, pvars, mvars, xvars>>

\* The promise of view.when rejects (the view cannot be drawn).  Neither
\* component passes a rejection callback, so no state of the component changes.
ViewReadyRejects ==
    /\ \E i \in 1..Len(effects) :
        /\ effects[i].stage = "created"
        /\ ~views[effects[i].view].destroyed
        /\ effects' = [effects EXCEPT ![i].stage = "failed"]
    /\ UNCHANGED <<widget, life, props, loadError, isLoading, refSet,
                   loaderMounted, views, changes, pvars, mvars, xvars>>

\* The host removes the widget: React runs the cleanups in place and empties
\* the ref.
Unmount ==
    /\ life = "mounted"
    /\ life' = "unmounted"
    /\ views' = ViewsAfterCleanup(effects, views)
    /\ effects' = EffectsAfterCleanup(effects)
    /\ refSet' = FALSE
    /\ loaderMounted' = FALSE
    /\ UNCHANGED <<widget, props, loadError, isLoading, changes, pvars, mvars, xvars>>

WidgetNext ==
    \/ Mount
    \/ ChangeProps
    \/ ImportsResolve
    \/ ImportsFail
    \/ ViewSetupFails
    \/ ViewReady
    \/ ViewReadyRejects
    \/ Unmount

SpecWidget == WidgetInit /\ [][WidgetNext]_vars

\* Pending promises settle: the continuation of an initialization that waits
\* for its imports runs, and so does the callback of a view that can become
\* ready.  What the host does (a change of props, an unmount) is not forced.
SpecWidgetFair ==
    /\ SpecWidget
    /\ WF_vars(ImportsResolve \/ ImportsFail \/ ViewSetupFails)
    /\ WF_vars(ViewReady \/ ViewReadyRejects)

----------------------------------------------------------------------------
(* What a widget builds from its yamlConfig: the props processYamlMatches     *)
(* derives, the basemap, the center, the UI components and the layers, for    *)
(* the declarations of one page, which share config.apiKey.                   *)

\* The values of yamlConfig.center: absent, a string (given by the parts that
\* split(',') cuts it into) or a sequence.
NoCenter == [type |-> "absent", value |-> <<>>]
StringCenter(parts) == [type |-> "string", value |-> parts]
ArrayCenter(elems) == [type |-> "array", value |-> elems]

\* A variant of ProcessCenter with a slip in it: a sequence counts only when
\* it has exactly two elements.
ProcessCenterExactlyTwo(center) ==
    IF center.type = "string"
    THEN LET parts == [i \in 1..Len(center.value) |-> ParseFloat(center.value[i])]
         IN  IF Len(parts) = 2
             THEN [latitude |-> parts[1], longitude |-> parts[2]]
             ELSE [latitude |-> Num(0), longitude |-> Num(0)]
    ELSE IF center.type = "array" /\ Len(center.value) = 2
    THEN [latitude |-> center.value[1], longitude |-> center.value[2]]
    ELSE [latitude |-> Num(0), longitude |-> Num(0)]

\* processYamlMatches (and the test page): latitude and longitude from
\* parsedConfig.center.
ProcessCenter(center) ==
    IF center.type = "string"
    THEN LET parts == [i \in 1..Len(center.value) |-> ParseFloat(center.value[i])]
         IN  IF Len(parts) = 2
             THEN [latitude |-> parts[1], longitude |-> parts[2]]
             ELSE [latitude |-> Num(0), longitude |-> Num(0)]
    ELSE IF center.type = "array" /\ Len(center.value) >= 2
    THEN [latitude |-> center.value[1], longitude |-> center.value[2]]
    ELSE [latitude |-> Num(0), longitude |-> Num(0)]

\* initializeMap: viewOptions.center from the numeric props.
DirectCenter(latitude, longitude) == <<longitude, latitude>>

\* loadMap: center from yamlConfig.center, in [lon, lat] order.
LoaderCenter(center) ==
    IF center.type = "string"
    THEN LET parts == [i \in 1..Len(center.value) |-> ParseFloat(center.value[i])]
         IN  IF Len(parts) = 2 THEN <<parts[2], parts[1]>> ELSE <<Num(0), Num(0)>>
    ELSE IF center.type = "array" /\ Len(center.value) >= 2
    THEN <<center.value[2], center.value[1]>>
    ELSE <<Num(0), Num(0)>>

\* The coordinate test of the effect on JavaScript numbers: every comparison
\* with NaN is false.
Less(a, b) == a[1] = "num" /\ b[1] = "num" /\ a[2] < b[2]
CoordsRejected(latitude, longitude) ==
    \/ Less(latitude, Num(-90)) \/ Less(Num(90), latitude)
    \/ Less(longitude, Num(-180)) \/ Less(Num(180), longitude)

\* The basemaps that work without a key ("" stands for an absent basemap).
BasemapAllowlist ==
    {"osm", "satellite", "hybrid", "gray", "dark-gray", "oceans", "terrain"}

\* initializeMap: finalBasemap from yamlConfig.basemap and the basemap prop.
DirectBasemap(configBasemap, propBasemap) ==
    LET effectiveBasemap == IF configBasemap # "" THEN configBasemap ELSE propBasemap
    IN  IF effectiveBasemap \in BasemapAllowlist THEN effectiveBasemap ELSE "osm"

\* loadMap: new Map({basemap: yamlConfig?.basemap || 'osm'}).
LoaderBasemap(configBasemap) == IF configBasemap # "" THEN configBasemap ELSE "osm"

\* The components a MapView shows when nothing is configured.
DefaultUI == {"attribution", "zoom"}

\* loadMap: the widgets added to view.ui, one test of uiConfig per widget.
\* A ui section is the sequence of its <<key, value>> entries.
LoaderWidgets == {"home", "compass", "basemapToggle", "scaleBar", "zoom",
                  "layerList", "legend"}
LoaderUI(ui) ==
    DefaultUI \cup {k \in LoaderWidgets :
                       ~\E i \in 1..Len(ui.entries) : ui.entries[i] = <<k, FALSE>>}

\* initializeMap: the callback that walks Object.entries(yamlConfig.ui).
RECURSIVE DirectUIEntries(_, _)
DirectUIEntries(entries, shown) ==
    IF entries = <<>> THEN shown
    ELSE LET key == Head(entries)[1]
             value == Head(entries)[2]
             afterAttribution == IF key = "attribution" /\ value = FALSE
                                 THEN shown \ {"attribution"} ELSE shown
             afterLogo == IF key = "logo"
                          THEN (IF value THEN {"logo"} ELSE {})
                          ELSE afterAttribution
         IN  DirectUIEntries(Tail(entries), afterLogo)

DirectUI(ui) == IF ui.given THEN DirectUIEntries(ui.entries, DefaultUI) ELSE DefaultUI

\* loadLayers: the layer class chosen for a service, by its type or by what
\* its url contains ("none": the unsupported branch).
LoaderLayerClass(service) ==
    IF service.type \in {"FeatureServer", "FeatureService"} \/ service.url = "featureserver"
    THEN "FeatureLayer"
    ELSE IF service.type = "MapServer" \/ service.url = "mapserver"
    THEN "MapImageLayer"
    ELSE IF service.type = "ImageServer" \/ service.url = "imageserver"
    THEN "ImageryLayer"
    ELSE IF service.type = "VectorTileServer" \/ service.url = "vectortileserver"
    THEN "VectorTileLayer"
    ELSE "none"

\* One iteration of the loop of loadLayers: the layer added for the service,
\* with the key in effect when it is created, or nothing (unsupported type, or
\* the constructor throws and the inner catch logs it).
LoaderLayerStep(service, layers, key) ==
    IF LoaderLayerClass(service) # "none" /\ ~service.throws
    THEN Append(layers, [id |-> service.id, class |-> LoaderLayerClass(service),
                         key |-> key])
    ELSE layers

\* loadServices of initializeMap: the layer class chosen for a service, by its
\* type alone.
DirectLayerClass(service) ==
    IF service.type = "FeatureService" THEN "FeatureLayer"
    ELSE IF service.type = "MapServer" THEN "MapImageLayer"
    ELSE IF service.type = "ImageServer" THEN "ImageryLayer"
    ELSE IF service.type = "VectorTileService" THEN "VectorTileLayer"
    ELSE "none"

\* loadServices of initializeMap.  The statement that awaits the four imports
\* has no terminator and the next line starts with a parenthesis, so it reads
\* Promise.all([...])(yamlConfig.services || []).forEach(...): calling the
\* promise throws a TypeError before any service is looked at, and the catch
\* block logs it.  No layer is added.
DirectLoadServices(services, layers, key) == layers

\* The configurations the pages are made of.
Tokens == {0, 1, 2}

Basemaps == {"", "osm", "satellite", "streets-navigation-vector"}

Centers ==
    { NoCenter,
      StringCenter(<<<<"num", 40>>, <<"num", -74>>>>),
      StringCenter(<<<<"num", 40>>>>),
      StringCenter(<<<<"num", 40>>, <<"num", -74>>, <<"num", 5>>>>),
      StringCenter(<<<<"num", 40>>, <<"junk", 0>>>>),
      StringCenter(<<<<"junk", 0>>, <<"num", -74>>>>),
      StringCenter(<<<<"empty", 0>>>>),
      ArrayCenter(<<>>),
      ArrayCenter(<<Num(40)>>),
      ArrayCenter(<<Num(40), Num(-74)>>),
      ArrayCenter(<<Num(40), Num(-74), Num(9)>>) }

NoUI == [given |-> FALSE, entries |-> <<>>]
UISection(entries) == [given |-> TRUE, entries |-> entries]

UIs ==
    { NoUI,
      UISection(<<>>),
      UISection(<<<<"attribution", FALSE>>>>),
      UISection(<<<<"home", FALSE>>, <<"legend", FALSE>>>>),
      UISection(<<<<"zoom", FALSE>>, <<"compass", TRUE>>>>),
      UISection(<<<<"layerList", FALSE>>, <<"basemapToggle", FALSE>>,
                  <<"scaleBar", FALSE>>>>) }

Service(id, type, url, throws) ==
    [id |-> id, type |-> type, url |-> url, throws |-> throws]

ServiceLists ==
    { <<>>,
      <<Service(1, "FeatureServer", "featureserver", FALSE)>>,
      <<Service(1, "FeatureServer", "featureserver", FALSE),
        Service(2, "MapServer", "mapserver", FALSE),
        Service(3, "ImageServer", "imageserver", FALSE)>>,
      <<Service(1, "MapServer", "mapserver", FALSE),
        Service(2, "FeatureServer", "featureserver", TRUE),
        Service(3, "FeatureService", "plain", FALSE)>>,
      <<Service(1, "WMS", "plain", FALSE),
        Service(2, "VectorTileService", "plain", FALSE),
        Service(3, "ImageServer", "plain", FALSE)>>,
      <<Service(1, "MapServer", "featureserver", FALSE),
        Service(2, "VectorTileServer", "vectortileserver", FALSE)>> }

YamlConfig(token, basemap, center, ui, services) ==
    [token |-> token, basemap |-> basemap, center |-> center, ui |-> ui,
     services |-> services]

Configs ==
    {YamlConfig(t, b, c, u, s) :
        t \in Tokens, b \in Basemaps, c \in Centers, u \in UIs, s \in ServiceLists}

\* The declarations of a page with several maps differ in their token.
TokenConfigs ==
    {YamlConfig(t, "", NoCenter, NoUI,
                <<Service(1, "FeatureServer", "featureserver", FALSE)>>) :
        t \in Tokens}

RECURSIVE Pages(_)
Pages(n) ==
    IF n = 0 THEN {<<>>}
    ELSE LET shorter == Pages(n - 1)
         IN  shorter \cup {Append(p, c) : p \in {q \in shorter : Len(q) = n - 1},
                                          c \in TokenConfigs}

\* A widget that has built nothing yet.
NothingBuilt ==
    [stage |-> "new", latitude |-> Num(0), longitude |-> Num(0), basemapProp |-> "",
     key |-> 0, basemap |-> "", center |-> <<>>, ui |-> {}, layers |-> <<>>,
     next |-> 1]

PageInit ==
    /\ PipelineIdle
    /\ ExtrasIdle
    /\ widget \in {"direct", "loader"}
    /\ life = "new" /\ props = NoProps
    /\ loadError = "none" /\ isLoading = TRUE /\ refSet = FALSE
    /\ loaderMounted = FALSE /\ effects = <<>> /\ views = <<>> /\ changes = 0
    /\ configs \in {<<c>> : c \in Configs} \cup {p \in Pages(MaxMaps) : Len(p) >= 2}
    /\ apiKey = 0
    /\ built = [w \in 1..Len(configs) |-> NothingBuilt]

\* processYamlMatches builds the element of a declaration from its parsed
\* configuration, and the widget's effect tests the coordinates and starts the
\* initialization.
RenderDeclaration ==
    /\ \E w \in 1..Len(configs) :
        /\ built[w].stage = "new"
        /\ LET c == ProcessCenter(configs[w].center)
               basemapProp == IF configs[w].basemap # "" THEN configs[w].basemap
                              ELSE "osm"
           IN  built' = [built EXCEPT
                   ![w].latitude = c.latitude,
                   ![w].longitude = c.longitude,
                   ![w].basemapProp = basemapProp,
                   ![w].stage = IF CoordsRejected(c.latitude, c.longitude)
                                THEN "error" ELSE "importing"]
    /\ UNCHANGED <<configs, apiKey, pvars, wvars, xvars>>

\* The imports resolve: the key is set when the configuration has a token, and
\* the map and the view are constructed.  loadMap adds its widgets to view.ui
\* right away; initializeMap calls loadServices.
MapCreated ==
    /\ \E w \in 1..Len(configs) :
        /\ built[w].stage = "importing"
        /\ LET c == configs[w]
               key == IF c.token # 0 THEN c.token ELSE apiKey
           IN  /\ apiKey' = key
               /\ built' = [built EXCEPT
                      ![w].stage = "created",
                      ![w].key = key,
                      ![w].basemap = IF widget = "direct"
                                     THEN DirectBasemap(c.basemap, built[w].basemapProp)
                                     ELSE LoaderBasemap(c.basemap),
                      ![w].center = IF widget = "direct"
                                    THEN DirectCenter(built[w].latitude,
                                                      built[w].longitude)
                                    ELSE LoaderCenter(c.center),
                      ![w].ui = IF widget = "direct" THEN DefaultUI
                                ELSE LoaderUI(c.ui),
                      ![w].layers = IF widget = "direct"
                                    THEN DirectLoadServices(c.services,
                                                            built[w].layers, key)
                                    ELSE built[w].layers]
    /\ UNCHANGED <<configs, pvars, wvars, xvars>>

\* The view is ready: initializeMap's callback customizes the UI; loadMap's
\* callback calls loadLayers.
MapReady ==
    /\ \E w \in 1..Len(configs) :
        /\ built[w].stage = "created"
        /\ built' = [built EXCEPT
               ![w].stage = IF widget = "loader" /\ configs[w].services # <<>>
                            THEN "layers" ELSE "done",
               ![w].ui = IF widget = "direct" THEN DirectUI(configs[w].ui)
                         ELSE built[w].ui]
    /\ UNCHANGED <<configs, apiKey, pvars, wvars, xvars>>

\* loadLayers handles its next service (the import of the layer class is
\* awaited inside the loop, so other widgets may run in between).
LayerLoaded ==
    /\ widget = "loader"
    /\ \E w \in 1..Len(configs) :
        /\ built[w].stage = "layers"
        /\ LET services == configs[w].services
               n == built[w].next
           IN  built' = [built EXCEPT
                   ![w].layers = LoaderLayerStep(services[n], built[w].layers, apiKey),
                   ![w].next = n + 1,
                   ![w].stage = IF n = Len(services) THEN "done" ELSE "layers"]
    /\ UNCHANGED <<configs, apiKey, pvars, wvars, xvars>>

PageNext ==
    \/ RenderDeclaration
    \/ MapCreated
    \/ MapReady
    \/ LayerLoaded

SpecPage == PageInit /\ [][PageNext]_vars

----------------------------------------------------------------------------
(* extractMapParams on attribute strings, and the element processMapContent   *)
(* creates from its result.                                                   *)

Fields == {"latitude", "longitude", "zoom", "basemap", "height", "width"}

AttributeNames == UNION {Synonyms(f) : f \in Fields}

AttributeTexts ==
    {<<"num", 40>>, <<"junk", 1>>, <<"empty", 0>>, <<"apos", 1>>, <<"brace", 1>>}

Attributes ==
    {Attribute(n, f, t) : n \in AttributeNames, f \in {"quoted", "braced"},
                          t \in AttributeTexts}

\* The attribute strings extractMapParams is called on: no attribute, one, or
\* two.
AttributeStrings ==
    {<<>>} \cup {<<a>> : a \in Attributes} \cup {<<a, b>> : a, b \in Attributes}

\* The defaults of the element's props: height and width are filled in by
\* processMapContent, zoom and basemap by the parameter defaults of ArcGISMap.
DefaultZoom == Num(4)
DefaultBasemap == <<"osm", 0>>
DefaultHeight == <<"400px", 0>>
DefaultWidth == <<"100%", 0>>

OrDefault(value, default) == IF value = Undefined THEN default ELSE value

\* The props the widget works with for the parameters p.
TagElementProps(p) ==
    [latitude |-> p.latitude, longitude |-> p.longitude,
     zoom |-> OrDefault(p.zoom, DefaultZoom),
     basemap |-> OrDefault(p.basemap, DefaultBasemap),
     height |-> OrDefault(p.height, DefaultHeight),
     width |-> OrDefault(p.width, DefaultWidth)]

ParamsInit ==
    /\ PipelineIdle
    /\ WidgetIdle
    /\ PageIdle
    /\ UsageIdle
    /\ CallsIdle
    /\ TestPageIdle
    /\ attributeString \in AttributeStrings
    /\ extracted = <<>>

\* const params = extractMapParams(attributeString)
ExtractParams ==
    /\ extracted = <<>>
    /\ extracted' = <<ExtractMapParams(attributeString)>>
    /\ UNCHANGED <<attributeString, usageVars, callVars, testVars, pvars, wvars, mvars>>

\* mapComponents.push(<ArcGISMap ... />)
CreateTagElement ==
    /\ Len(extracted) = 1
    /\ extracted' = Append(extracted, TagElementProps(extracted[1]))
    /\ UNCHANGED <<attributeString, usageVars, callVars, testVars, pvars, wvars, mvars>>

ParamsNext ==
    \/ ExtractParams
    \/ CreateTagElement

SpecParams == ParamsInit /\ [][ParamsNext]_vars

----------------------------------------------------------------------------
(* The widget used directly, <ArcGISMap latitude longitude zoom basemap />,   *)
(* with no yamlConfig.  An absent prop is undefined ("" for the basemap).     *)

UsageLatitudes == {Undefined, Num(0), Num(40), Num(95)}
UsageLongitudes == {Undefined, Num(0), Num(-74)}
UsageZooms == {Undefined, Num(0), Num(10)}
UsageBasemaps == {"", "osm", "satellite", "streets-navigation-vector"}

Usages ==
    [component : {"direct", "loader"}, latitude : UsageLatitudes,
     longitude : UsageLongitudes, zoom : UsageZooms, basemap : UsageBasemaps]

\* The parameter defaults of the direct component, and initializeMap with no
\* yamlConfig: the view's center, zoom and basemap.
DirectUsageView(u) ==
    LET numLatitude == OrDefault(u.latitude, Num(0))
        numLongitude == OrDefault(u.longitude, Num(0))
        numZoom == OrDefault(u.zoom, DefaultZoom)
        basemap == IF u.basemap = "" THEN "osm" ELSE u.basemap
    IN  [kind |-> "view", center |-> DirectCenter(numLatitude, numLongitude),
         zoom |-> numZoom,
         basemap |-> DirectBasemap("", basemap)]

\* The loader variant hands MapLoader mapRef, yamlConfig and setLoading only;
\* loadMap with no yamlConfig: center [0, 0], zoom 4, basemap 'osm'.
LoaderUsageView(u) ==
    [kind |-> "view", center |-> LoaderCenter(NoCenter),
     zoom |-> DefaultZoom,
     basemap |-> LoaderBasemap("")]

\* The coordinate test of either variant on the props with their defaults.
UsageRejected(u) ==
    CoordsRejected(OrDefault(u.latitude, Num(0)), OrDefault(u.longitude, Num(0)))

UsageInit ==
    /\ PipelineIdle
    /\ WidgetIdle
    /\ PageIdle
    /\ ParamsIdle
    /\ CallsIdle
    /\ TestPageIdle
    /\ usage \in {<<u>> : u \in Usages}
    /\ usageView = <<>>

\* The effect finds the coordinates out of range and sets loadError.
UsageCoordsRejected ==
    /\ usageView = <<>>
    /\ UsageRejected(usage[1])
    /\ usageView' = <<[kind |-> "error"]>>
    /\ UNCHANGED <<usage, paramVars, callVars, testVars, pvars, wvars, mvars>>

\* initializeMap / loadMap runs up to new MapView(...).
UsageViewCreated ==
    /\ usageView = <<>>
    /\ ~UsageRejected(usage[1])
    /\ usageView' = <<IF usage[1].component = "direct"
                      THEN DirectUsageView(usage[1])
                      ELSE LoaderUsageView(usage[1])>>
    /\ UNCHANGED <<usage, paramVars, callVars, testVars, pvars, wvars, mvars>>

UsageNext ==
    \/ UsageCoordsRejected
    \/ UsageViewCreated

SpecUsage == UsageInit /\ [][UsageNext]_vars

----------------------------------------------------------------------------
(* processMapContent called again on the same content (ContentWithMaps is     *)
(* rendered again).  The regular expressions are module-level objects, so     *)
(* their cursor outlives the call; everything else is local to the call.      *)

\* The cursor the loop starts from: processYamlMatches sets
\* MAP_YAML_REGEX.lastIndex = 0 before its loop; the inline-tag
\* processMapContent starts from whatever the regular expression holds.
CursorOnEntry(v, cursor) == IF IsYaml(v) THEN 0 ELSE cursor

\* A variant of CallAgain with a slip in it: the placeholder counter is kept
\* from the call before, as if it were module-level too.
CallAgainKeepsCounter ==
    /\ pc = "done"
    /\ previous = <<>>
    /\ previous' = <<[processedContent |-> processedContent,
                      mapComponents |-> mapComponents]>>
    /\ pc' = "scan"
    /\ loop' = 1
    /\ lastIndex' = CursorOnEntry(variant, lastIndex)
    /\ processedContent' = content
    /\ mapComponents' = <<>>
    /\ currentIndex' = currentIndex
    /\ history' = <<>>
    /\ UNCHANGED <<variant, content, rendered, wvars, mvars, paramVars,
                   usageVars, testVars>>

\* The second call: what the first returned is kept for comparison, and the
\* locals of processMapContent start afresh.
CallAgain ==
    /\ pc = "done"
    /\ previous = <<>>
    /\ previous' = <<[processedContent |-> processedContent,
                      mapComponents |-> mapComponents]>>
    /\ pc' = "scan"
    /\ loop' = 1
    /\ lastIndex' = CursorOnEntry(variant, lastIndex)
    /\ processedContent' = content
    /\ mapComponents' = <<>>
    /\ currentIndex' = 0
    /\ history' = <<>>
    /\ UNCHANGED <<variant, content, rendered, wvars, mvars, paramVars,
                   usageVars, testVars>>

CallsNext ==
    \/ YamlMatchParsed
    \/ YamlMatchFailed
    \/ YamlScanEnd
    \/ TagMatch
    \/ TagLoopEnd
    \/ Render
    \/ CallAgain

SpecCalls == Init /\ [][CallsNext]_vars

----------------------------------------------------------------------------
(* The test page: a textarea of YAML, an Update Map button and the widget.    *)

\* defaultYamlConfig, and the texts the textarea is edited to: two other
\* configurations, text the parser rejects, blank text, and a configuration
\* followed by a line the parser rejects.
DefaultYamlConfig == <<YamlLine(1)>>

TestTexts ==
    {DefaultYamlConfig, <<YamlLine(2)>>, <<YamlLine(2), YamlLine(3)>>, <<BadYaml>>,
     <<Space>>, <<YamlLine(2), BadYaml>>}

\* useState(null) of mapConfig, and the undefined that yaml.load gives for a
\* blank document.
NullConfig == <<<<"null", 0>>>>
UndefinedConfig == <<<<"undefined", 0>>>>

\* A variant of ParseYamlAndUpdateMap with a slip in it: the error is not
\* cleared when the text parses.
ParseYamlAndUpdateMapKeepsError(text, config, err) ==
    LET parsedConfig == YamlLoad(text)
    IN  IF parsedConfig.threw
        THEN [mapConfig |-> config, error |-> "Error parsing YAML", outcome |-> "threw"]
        ELSE [mapConfig |-> IF parsedConfig.defined THEN parsedConfig.value
                            ELSE UndefinedConfig,
              error |-> err, outcome |-> "parsed"]

\* parseYamlAndUpdateMap on the text of the render that created it: the try
\* block sets mapConfig and clears the error, the catch block sets the error.
ParseYamlAndUpdateMap(text, config, err) ==
    LET parsedConfig == YamlLoad(text)
    IN  IF parsedConfig.threw
        THEN [mapConfig |-> config, error |-> "Error parsing YAML", outcome |-> "threw"]
        ELSE [mapConfig |-> IF parsedConfig.defined THEN parsedConfig.value
                            ELSE UndefinedConfig,
              error |-> "null", outcome |-> "parsed"]

TestPageInit ==
    /\ PipelineIdle
    /\ WidgetIdle
    /\ PageIdle
    /\ ParamsIdle
    /\ UsageIdle
    /\ CallsIdle
    /\ yamlInput = DefaultYamlConfig
    /\ mapConfig = NullConfig
    /\ error = "null"
    /\ attempts = 0
    /\ outcomes = <<>>

\* The state after parseYamlAndUpdateMap ran on text.
Parse(text) ==
    LET r == ParseYamlAndUpdateMap(text, mapConfig, error)
    IN  /\ mapConfig' = r.mapConfig
        /\ error' = r.error
        /\ outcomes' = Append(outcomes, r.outcome)
        /\ attempts' = attempts + 1

\* The effect of the first render calls parseYamlAndUpdateMap.
TestPageMount ==
    /\ attempts = 0
    /\ yamlInput' = yamlInput
    /\ Parse(yamlInput)
    /\ UNCHANGED <<pvars, wvars, mvars, paramVars, usageVars, callVars>>

\* onChange of the textarea: setYamlInput(e.target.value).  The render that
\* follows creates parseYamlAndUpdateMap anew (yamlInput is the dependency of
\* its useCallback), and the effect, which depends on the function, runs again
\* and calls it.
EditTextarea ==
    /\ attempts > 0 /\ attempts < MaxAttempts
    /\ \E text \in TestTexts \ {yamlInput} :
        /\ yamlInput' = text
        /\ Parse(text)
    /\ UNCHANGED <<pvars, wvars, mvars, paramVars, usageVars, callVars>>

\* onClick of the Update Map button.
ClickUpdateMap ==
    /\ attempts > 0 /\ attempts < MaxAttempts
    /\ yamlInput' = yamlInput
    /\ Parse(yamlInput)
    /\ UNCHANGED <<pvars, wvars, mvars, paramVars, usageVars, callVars>>

TestPageNext ==
    \/ TestPageMount
    \/ EditTextarea
    \/ ClickUpdateMap

SpecTestPage == TestPageInit /\ [][TestPageNext]_vars

----------------------------------------------------------------------------
(* The three loops of the inline-tag processMapContent on their own.  The     *)
(* function is synchronous code: once called, it keeps taking its next step  *)
(* until it returns.                                                         *)

\* The segments of the contents: literal text, an authored placeholder, and
\* a tag of each spelling.
LoopSegs ==
    { <<Text>>, <<Placeholder(0)>>, <<Tag("arcgis-map", 1)>>,
      <<Tag("ArcgisMap", 3)>>, <<Tag("ArcGISMap", 4)>> }

TagInit ==
    /\ WidgetIdle
    /\ PageIdle
    /\ ExtrasIdle
    /\ variant = "tag"
    /\ content \in Contents(LoopSegs, MaxSegs)
    /\ pc = "scan"
    /\ loop = 1
    /\ lastIndex = 0
    /\ processedContent = content
    /\ mapComponents = <<>>
    /\ currentIndex = 0
    /\ rendered = <<>>
    /\ history = <<>>

TagNext ==
    \/ TagMatch
    \/ TagLoopEnd

SpecTagFair == TagInit /\ [][TagNext]_vars /\ WF_vars(TagNext)

----------------------------------------------------------------------------
(* What the properties are stated with *)

Returned == pc \in {"scanned", "done"}

Parsed(h) == SelectSeq(h, LAMBDA e : e.ok)

\* The children a reader of the content expects: the text between the parsed
\* declarations as html, and in the place of the k-th parsed declaration (by
\* its offsets in the content) the element built from its configuration.
RECURSIVE ExpectedFrom(_, _, _, _)
ExpectedFrom(c, h, pos, k) ==
    IF h = <<>> THEN <<HtmlChild(SubSeq(c, pos + 1, Len(c)))>>
    ELSE LET e == Head(h)
         IN  IF ~e.ok THEN ExpectedFrom(c, Tail(h), pos, k)
             ELSE <<HtmlChild(SubSeq(c, pos + 1, e.index)),
                    MapChild(MapElement(k, e.config))>>
                      \o ExpectedFrom(c, Tail(h), e.end, k + 1)

\* The children that show: maps, and html that does not trim to nothing.
Visible(children) ==
    SelectSeq(children, LAMBDA ch : ch.kind = "map" \/ ~IsBlank(ch.text))

\* The content with each parsed declaration's span (by its offsets) replaced by
\* the token it was given, and nothing else altered.
RECURSIVE SubstituteFrom(_, _, _)
SubstituteFrom(c, h, pos) ==
    IF h = <<>> THEN SubSeq(c, pos + 1, Len(c))
    ELSE LET e == Head(h)
         IN  IF ~e.ok THEN SubstituteFrom(c, Tail(h), pos)
             ELSE SubSeq(c, pos + 1, e.index) \o <<Placeholder(e.token)>>
                      \o SubstituteFrom(c, Tail(h), e.end)

\* The literal segments of a split on the placeholder pattern, concatenated.
RECURSIVE Flatten(_)
Flatten(parts) == IF parts = <<>> THEN <<>> ELSE Head(parts) \o Flatten(Tail(parts))

LiteralText(s) ==
    Flatten(SelectSeq(SplitOnPlaceholders(s), LAMBDA part : ~PartMatchesPlaceholder(part)))

\* A fenced declaration stands at p: an opening fence, a language line and,
\* somewhere after them, a fence.
DeclaredAt(c, p, v) ==
    /\ p + 2 <= Len(c)
    /\ c[p] = <<"fence", 0>>
    /\ c[p + 1] \in YamlLangs(v)
    /\ \E q \in (p + 2)..Len(c) : c[q] = <<"fence", 0>>

IsTagToken(t) == t[1] \in {"arcgis-map", "ArcgisMap", "ArcGISMap"}

HasDeclaration(c, v) ==
    IF IsYaml(v) THEN \E p \in 1..Len(c) : DeclaredAt(c, p, v)
    ELSE \E p \in 1..Len(c) : IsTagToken(c[p])

HasAuthoredPlaceholder(c) == \E p \in 1..Len(c) : c[p][1] = "placeholder"

----------------------------------------------------------------------------
(* Claims *)

\* C1: for every content whose N >= 1 fenced declarations all parse, N elements
\* are produced, in declaration order, and the children ContentWithMaps returns
\* show, at the place of the i-th declaration, the element built from the i-th
\* declaration's configuration.
FencedWidgetsAtTheirDeclarations ==
    (IsYaml(variant) /\ pc = "done" /\ history # <<>>
        /\ \A i \in 1..Len(history) : history[i].ok)
    => /\ Len(mapComponents) = Len(history)
       /\ \A i \in 1..Len(history) :
              mapComponents[i] = MapElement(i - 1, history[i].config)
       /\ Visible(rendered) = Visible(ExpectedFrom(content, history, 0, 0))

\* C2: for every content, each placeholder stands exactly at the offset of the
\* span the scanner matched: processedContent is the content with exactly the
\* parsed declarations' spans replaced and nothing else altered, so the
\* literal segments of its split agree with those of the content.
PlaceholdersStandAtMatchedSpans ==
    (IsYaml(variant) /\ Returned)
    => /\ processedContent = SubstituteFrom(content, history, 0)
       /\ LiteralText(processedContent)
              = LiteralText(SubstituteFrom(content, history, 0))

\* C3: for every content with no matching declaration, processMapContent
\* returns the content itself and no component, and ContentWithMaps returns
\* the whole content as one html child.
NoDeclarationNoChange ==
    (Returned /\ ~HasDeclaration(content, variant))
    => /\ processedContent = content
       /\ mapComponents = <<>>
       /\ pc = "done" => rendered = <<HtmlChild(content)>>

NoDeclarationWitness ==
    /\ pc = "done" /\ variant = "yaml"
    /\ ~HasDeclaration(content, variant)
    /\ HasAuthoredPlaceholder(content)
    /\ \E p \in 1..Len(content) : content[p] = Fence

\* C4: when the body of a fenced declaration fails to parse, the iteration
\* adds no placeholder and no component, leaves processedContent as it was and
\* raises nothing (the loop goes on); and the scan misses no later
\* declaration: each iteration takes the first match after the previous one,
\* and none is left when processMapContent returns.
FailedParseSkipped ==
    (Len(history') = Len(history) + 1 /\ ~history'[Len(history')].ok)
    => /\ processedContent' = processedContent
       /\ mapComponents' = mapComponents
       /\ currentIndex' = currentIndex
       /\ pc' = "scan"

ScanIsComplete ==
    IsYaml(variant)
    => /\ \A i \in 1..Len(history) :
              LET from == IF i = 1 THEN 0 ELSE history[i - 1].end
              IN  /\ history[i].index >= from
                  /\ DeclaredAt(content, history[i].index + 1, variant)
                  /\ \A p \in (from + 1)..history[i].index :
                         ~DeclaredAt(content, p, variant)
       /\ Returned =>
              LET from == IF history = <<>> THEN 0 ELSE history[Len(history)].end
              IN  \A p \in (from + 1)..Len(content) : ~DeclaredAt(content, p, variant)

SkipAndContinue == [][FailedParseSkipped]_vars /\ []ScanIsComplete

SkipAndContinueWitness ==
    /\ variant = "yaml" /\ pc = "done"
    /\ \E i \in 1..Len(history) : \E j \in 1..Len(history) :
           i < j /\ ~history[i].ok /\ history[j].ok

\* The number of times token t occurs in s.
Count(t, s) == Cardinality({p \in 1..Len(s) : s[p] = t})

RECURSIVE CountIn(_, _)
CountIn(t, h) ==
    IF h = <<>> THEN 0 ELSE Count(t, Head(h).full) + CountIn(t, Tail(h))

\* C5: after processMapContent on a content with K parsed declarations the
\* tokens handed out are 0 .. K-1 in the order of processing (a failed parse
\* takes none), each token is inserted exactly once (processedContent holds
\* one more of it than the content did outside the replaced declarations),
\* and the component list has length K, component i built from the
\* declaration that received token i.
PlaceholderNumbering ==
    Returned
    => LET ok == Parsed(history)
           K == Len(ok)
       IN  /\ currentIndex = K
           /\ Len(mapComponents) = K
           /\ \A i \in 1..K :
                  /\ ok[i].token = i - 1
                  /\ mapComponents[i] = MapElement(i - 1, ok[i].config)
           /\ \A i \in 1..Len(history) : ~history[i].ok => history[i].token = -1
           /\ \A n \in 0..(Len(history) + 1) :
                  Count(Placeholder(n), processedContent)
                      + CountIn(Placeholder(n), ok)
                    = Count(Placeholder(n), content) + (IF n < K THEN 1 ELSE 0)

PlaceholderNumberingWitness ==
    /\ variant = "yaml" /\ pc = "done"
    /\ Len(Parsed(history)) >= 2
    /\ \E i \in 1..Len(history) : ~history[i].ok /\ i < Len(history)

\* The children a reader of inline-tag content expects: the text between the
\* tags as html, and in the place of the k-th tag from the left the element
\* built from that tag's attributes.
RECURSIVE ExpectedTagChildren(_, _, _)
ExpectedTagChildren(c, lit, k) ==
    IF c = <<>> THEN <<HtmlChild(lit)>>
    ELSE IF IsTagToken(Head(c))
    THEN <<HtmlChild(lit), MapChild(MapElement(k, ExtractMapParams(TagAttributes(Head(c)[2]))))>>
             \o ExpectedTagChildren(Tail(c), <<>>, k + 1)
    ELSE ExpectedTagChildren(Tail(c), Append(lit, Head(c)), k)

ConfigsOf(children) ==
    [i \in 1..Len(children) |->
        [kind |-> children[i].kind, text |-> children[i].text,
         config |-> children[i].map.config]]

\* C6: for every content with inline tags in any mix of the three spellings,
\* the elements are produced in left-to-right order of the tags and the child
\* at the place of each tag is built from that tag's own attributes.  (Stated
\* for contents without authored placeholder text, which is C7's case.)
InlineWidgetsAtTheirTags ==
    (variant = "tag" /\ pc = "done" /\ HasDeclaration(content, variant)
        /\ ~HasAuthoredPlaceholder(content))
    => LET want == ExpectedTagChildren(content, <<>>, 0)
           maps == SelectSeq(want, LAMBDA ch : ch.kind = "map")
       IN  /\ Len(mapComponents) = Len(maps)
           /\ \A i \in 1..Len(maps) : mapComponents[i].config = maps[i].map.config
           /\ ConfigsOf(Visible(rendered)) = ConfigsOf(Visible(want))

\* C7: for every content with at least one valid declaration and authored
\* text of the form __MAP_PLACEHOLDER_<digits>__, the recomposer shows that
\* text as html, spends no element on it, and shows every declaration's element
\* at the declaration's own place.
AuthoredPlaceholdersStayLiteral ==
    (IsYaml(variant) /\ pc = "done" /\ Parsed(history) # <<>>
        /\ HasAuthoredPlaceholder(content))
    => Visible(rendered) = Visible(ExpectedFrom(content, history, 0, 0))

\* An opening fence at p with no closing fence of its own: no fence follows
\* it, or the first fence that follows opens the next declaration (a language
\* line follows it, and a fence closes it).
Unterminated(c, p, v) ==
    /\ p + 1 <= Len(c)
    /\ c[p] = <<"fence", 0>>
    /\ c[p + 1] \in YamlLangs(v)
    /\ LET later == {q \in (p + 2)..Len(c) : c[q] = <<"fence", 0>>}
       IN  \/ later = {}
           \/ LET q == CHOOSE x \in later : \A y \in later : x <= y
              IN  DeclaredAt(c, q, v)

\* C8: an unterminated fenced declaration yields no match, whatever follows
\* it: no iteration of the scan matched a span that begins at its opening
\* fence (so the text around it, and a well-formed declaration after it, are
\* left as they are).
UnterminatedYieldsNoMatch ==
    (IsYaml(variant) /\ Returned)
    => \A p \in 1..Len(content) :
           Unterminated(content, p, variant)
           => \A i \in 1..Len(history) : history[i].index # p - 1

\* The views that were constructed and not destroyed.
LiveViews == {j \in 1..Len(views) : ~views[j].destroyed}

\* No initialization is still waiting for its imports.
InitializationsEnded == \A i \in 1..Len(effects) : effects[i].stage # "importing"

\* C9: once the widget is unmounted and every initialization it started has
\* run to its end, no view constructed for the widget remains un-destroyed,
\* at whatever point of the initialization the unmount came.
ViewsReleasedAfterUnmount ==
    (life = "unmounted" /\ InitializationsEnded) => LiveViews = {}

\* The widget is mounted without an error, at least one change of props was
\* rendered, and every initialization it started has produced a ready view.
SettledAfterChanges ==
    /\ life = "mounted" /\ changes > 0 /\ loadError = "none"
    /\ effects # <<>>
    /\ \A i \in 1..Len(effects) : effects[i].stage = "ready"

\* The view shows the values p.  (MapLoader is handed the configuration only
\* and takes center, zoom and basemap from it.)
ReflectsProps(v, p) ==
    IF widget = "loader" THEN v.props.yamlConfig = p.yamlConfig ELSE v.props = p

\* C10: after a sequence of changes of props has settled, the widget owns
\* exactly one live view, and that view was built from the latest props.
OneLiveViewOfLatestProps ==
    SettledAfterChanges
    => /\ Cardinality(LiveViews) = 1
       /\ \A j \in LiveViews : ReflectsProps(views[j], props)

\* C11: a widget passed a latitude outside [-90, 90] or a longitude outside
\* [-180, 180] shows the inline error, and no view is constructed for it: no
\* view was built by an initialization started with such values, and no live
\* view exists while the widget holds such values.
OutOfRangeShowsErrorAndNoView ==
    /\ \A j \in 1..Len(views) : ValidCoords(views[j].props)
    /\ (life = "mounted" /\ ~ValidCoords(props))
       => (loadError # "none" /\ LiveViews = {})

\* An initialization of the widget has failed: its imports rejected, a
\* constructor threw, or the view's readiness promise rejected.
SomeInitializationFailed == \E i \in 1..Len(effects) : effects[i].stage = "failed"

\* The widget shows the inline error and no loading indicator.
ShowsInlineError == loadError # "none" /\ ~isLoading

\* C12: whenever an initialization of a mounted widget has failed, the widget
\* eventually shows the inline error state and has left the loading state
\* (unless the host removes it first).
RenderFailureShowsError ==
    (life = "mounted" /\ SomeInitializationFailed)
        ~> (life = "unmounted" \/ ShowsInlineError)

\* The widget of declaration w has constructed its map.
HasMap(w) == built[w].stage \in {"created", "layers", "done"}

\* C13: on every page and under every interleaving of the initializations,
\* the token in effect when a declaration's map is created, and when each of
\* its layers is created, is that declaration's own token (none when it gave
\* none).
TokenIsTheDeclarationsOwn ==
    \A w \in 1..Len(configs) :
        HasMap(w)
        => /\ built[w].key = configs[w].token
           /\ \A i \in 1..Len(built[w].layers) :
                  built[w].layers[i].key = configs[w].token

\* The declared services for which the widget's component can create a layer:
\* the type is one the component knows and the constructor does not throw.
Creatable(service) ==
    /\ ~service.throws
    /\ IF widget = "direct" THEN DirectLayerClass(service) # "none"
       ELSE LoaderLayerClass(service) # "none"

IdsOf(seq) == [i \in 1..Len(seq) |-> seq[i].id]

\* C14: when a widget has finished, the layers it added are, in order, the
\* declared services for which a layer could be created: a service that fails
\* or is unsupported is skipped, and the others keep their declaration order.
LayersInDeclarationOrder ==
    \A w \in 1..Len(configs) :
        built[w].stage = "done"
        => IdsOf(built[w].layers) = IdsOf(SelectSeq(configs[w].services, Creatable))

\* C15: the basemap handed to the Map constructor is a member of the
\* allowlist, and a requested basemap outside the allowlist (or none) has been
\* replaced with osm.
BasemapIsAllowlisted ==
    \A w \in 1..Len(configs) :
        HasMap(w)
        => /\ built[w].basemap \in BasemapAllowlist
           /\ configs[w].basemap \notin BasemapAllowlist => built[w].basemap = "osm"

\* The center the normalization of a string should give: (first, second) when
\* the string has exactly two parts and both are numerals, (0, 0) otherwise.
ExpectedStringCenter(parts) ==
    IF Len(parts) = 2 /\ parts[1][1] = "num" /\ parts[2][1] = "num"
    THEN [latitude |-> Num(parts[1][2]), longitude |-> Num(parts[2][2])]
    ELSE [latitude |-> Num(0), longitude |-> Num(0)]

\* C16: for a center given as a string, the latitude and longitude the
\* content processor hands to the widget, and the center loadMap computes, are
\* (first, second) when exactly two parts result and both parse as numbers,
\* and (0, 0) in every other case.
StringCenterNormalized ==
    \A w \in 1..Len(configs) :
        (configs[w].center.type = "string" /\ built[w].stage # "new")
        => LET want == ExpectedStringCenter(configs[w].center.value)
           IN  /\ built[w].latitude = want.latitude
               /\ built[w].longitude = want.longitude
               /\ HasMap(w) => built[w].center = <<want.longitude, want.latitude>>

\* The center a sequence (or no center at all) should give.
ExpectedSequenceCenter(center) ==
    IF center.type = "array" /\ Len(center.value) >= 2
    THEN [latitude |-> center.value[1], longitude |-> center.value[2]]
    ELSE [latitude |-> Num(0), longitude |-> Num(0)]

LiteralSegments(s) ==
    SelectSeq(SplitOnPlaceholders(s), LAMBDA part : ~PartMatchesPlaceholder(part))

TextsOf(children) == [i \in 1..Len(children) |-> children[i].text]

\* C18: for a content with at least one declaration, the recomposer emits no
\* container for an empty literal segment, and emits every literal segment
\* that holds more than white space exactly once, in the original order.
NoEmptyContainers ==
    (IsYaml(variant) /\ pc = "done" /\ Len(mapComponents) > 0)
    => /\ \A i \in 1..Len(rendered) :
              rendered[i].kind = "html" => rendered[i].text # <<>>
       /\ TextsOf(SelectSeq(rendered,
                            LAMBDA ch : ch.kind = "html" /\ ~IsBlank(ch.text)))
              = SelectSeq(LiteralSegments(processedContent),
                          LAMBDA part : ~IsBlank(part))

\* The UI elements a configuration can toggle.
NamedUIElements ==
    {"attribution", "compass", "home", "zoom", "legend", "layerList",
     "basemapToggle", "scaleBar"}

\* The ui section sets the toggle of k explicitly to false.
ToggledOff(ui, k) == \E i \in 1..Len(ui.entries) : ui.entries[i] = <<k, FALSE>>

\* C19: on a widget that has finished, each named UI element is shown unless
\* the configuration sets its toggle explicitly to false; an absent ui
\* section or an absent key behaves as true.
UITogglesDefaultVisible ==
    \A w \in 1..Len(configs) :
        built[w].stage = "done"
        => \A k \in NamedUIElements :
               (k \in built[w].ui) <=> ~ToggledOff(configs[w].ui, k)

\* C20: extractMapParams never returns a not-a-number value: a latitude or
\* longitude attribute whose value does not parse gives 0, and a zoom
\* attribute whose value does not parse gives an omitted (undefined) zoom.
ExtractedParamsAreNumbers ==
    variant = "tag"
    => \A i \in 1..Len(mapComponents) :
           LET params == mapComponents[i].config
           IN  /\ params.latitude # NaN
               /\ params.longitude # NaN
               /\ params.zoom # NaN

\* The field f of a record of parameters.
FieldOf(p, f) ==
    CASE f = "latitude" -> p.latitude
      [] f = "longitude" -> p.longitude
      [] f = "zoom" -> p.zoom
      [] f = "basemap" -> p.basemap
      [] f = "height" -> p.height
      [] OTHER -> p.width

\* C21: an attribute string with one attribute gives, for the field the
\* attribute names, the same value under every synonym of the field and in
\* both forms (quoted and braced), whatever the value is; and the empty
\* attribute string gives latitude 0, longitude 0 and no optional field, so
\* that the widget works with zoom 4, basemap osm, height 400px, width 100%.
BothFormsAndAllSynonymsAgree ==
    /\ (Len(attributeString) = 1 /\ Len(extracted) >= 1)
       => \A f \in Fields :
              attributeString[1].name \in Synonyms(f)
              => \A n \in Synonyms(f), form \in {"quoted", "braced"} :
                     FieldOf(ExtractMapParams(
                                 <<Attribute(n, form, attributeString[1].text)>>), f)
                         = FieldOf(extracted[1], f)
    /\ (attributeString = <<>> /\ Len(extracted) = 2)
       => /\ extracted[1] = [latitude |-> Num(0), longitude |-> Num(0),
                             zoom |-> Undefined, basemap |-> Undefined,
                             height |-> Undefined, width |-> Undefined]
          /\ extracted[2] = [latitude |-> Num(0), longitude |-> Num(0),
                             zoom |-> DefaultZoom, basemap |-> DefaultBasemap,
                             height |-> DefaultHeight, width |-> DefaultWidth]

\* The body of a matched declaration (between the language line and the
\* closing fence), and the same body with every [text](url) as the bare url.
BodyOf(full) == SubSeq(full, 3, Len(full) - 1)

WithBareUrls(body) ==
    [i \in 1..Len(body) |->
        IF body[i][1] = "linkyaml" THEN <<"urlyaml", body[i][2]>> ELSE body[i]]

HasLink(body) == \E i \in 1..Len(body) : body[i][1] = "linkyaml"

\* C22: in the fenced-block pipeline a declaration body with link markup is
\* parsed with every link rewritten to its bare url (so a body that has no
\* other fault parses, and the configuration is that of the rewritten body),
\* while the working copy only ever loses the original matched text: no
\* rewritten line appears in it.
LinksNormalizedBeforeParsing ==
    (IsYaml(variant) /\ Returned)
    => /\ \A i \in 1..Len(history) :
              LET body == BodyOf(history[i].full)
              IN  (HasLink(body) /\ \A k \in 1..Len(body) : body[k][1] # "badyaml")
                  => /\ history[i].ok
                     /\ history[i].config
                            = SelectSeq(WithBareUrls(body), LAMBDA t : t # Space)
       /\ \A p \in 1..Len(processedContent) : processedContent[p][1] # "urlyaml"

\* A view was constructed for the widget used without a configuration.
UsageHasView == usage # <<>> /\ usageView # <<>> /\ usageView[1].kind = "view"

\* C23: an ArcGISMap given latitude, longitude, zoom and basemap props and no
\* configuration creates its view centered on (latitude, longitude) at the
\* given zoom with the given basemap (a basemap of the allowlist); 0, 0, 4
\* and osm stand in only for the props that are absent.
DirectUsageShowsProps ==
    UsageHasView
    => LET u == usage[1]
           v == usageView[1]
       IN  /\ v.center = <<OrDefault(u.longitude, Num(0)), OrDefault(u.latitude, Num(0))>>
           /\ v.zoom = OrDefault(u.zoom, Num(4))
           /\ u.basemap = "" => v.basemap = "osm"
           /\ u.basemap \in BasemapAllowlist => v.basemap = u.basemap

\* The layer class that belongs to a declared service type ("none" for a type
\* that is not one of the four kinds).
DeclaredClass(type) ==
    IF type \in {"FeatureService", "FeatureServer"} THEN "FeatureLayer"
    ELSE IF type = "MapServer" THEN "MapImageLayer"
    ELSE IF type = "ImageServer" THEN "ImageryLayer"
    ELSE IF type \in {"VectorTileService", "VectorTileServer"} THEN "VectorTileLayer"
    ELSE "none"

\* C24: once a widget has finished loading, every service of its declaration
\* whose type is one of the four kinds (and whose layer could be constructed)
\* has exactly one layer on the map, of the class of the declared type,
\* whatever its URL contains.
DeclaredTypeDecidesLayerClass ==
    \A w \in 1..Len(configs) :
        HasMap(w) /\ built[w].stage = "done"
        => \A i \in 1..Len(configs[w].services) :
               LET service == configs[w].services[i]
                   mine == {j \in 1..Len(built[w].layers) :
                               built[w].layers[j].id = service.id}
               IN  (DeclaredClass(service.type) # "none" /\ ~service.throws)
                   => /\ Cardinality(mine) = 1
                      /\ \A j \in mine :
                             built[w].layers[j].class = DeclaredClass(service.type)

\* A call of processMapContent is at its entry: nothing was matched yet.
AtEntry == pc = "scan" /\ loop = 1 /\ history = <<>>

\* C25: the matcher's cursor is at its start position on entry to every call
\* of processMapContent, and a second call on the same content returns the
\* same processedContent and the same configurations as the first, also when
\* declarations of the content fail to parse.
StatelessAcrossCalls ==
    /\ AtEntry => lastIndex = 0
    /\ (previous # <<>> /\ Returned)
       => /\ processedContent = previous[1].processedContent
          /\ mapComponents = previous[1].mapComponents

\* A second call has returned for a content with a declaration that parsed and
\* one that failed to.
StatelessAcrossCallsWitness ==
    /\ previous # <<>> /\ Returned
    /\ mapComponents # <<>>
    /\ \E i \in 1..Len(history) : ~history[i].ok

\* C26: the text is parsed only when the test page mounts and when Update Map
\* is clicked: a step that edits the textarea changes neither mapConfig nor
\* the error shown.
EditingDoesNotParse ==
    [][yamlInput' # yamlInput => (mapConfig' = mapConfig /\ error' = error)]_vars

\* How the most recent parse attempt of the test page ended.
LastOutcome == IF outcomes = <<>> THEN "none" ELSE outcomes[Len(outcomes)]

\* C27: after every parse attempt of the test page, a failed parse has left
\* mapConfig as it was and set the error, and a successful one has made
\* mapConfig the parsed value and cleared the error; so the error is set
\* exactly when the most recent attempt failed.
ParseOutcomeDecidesState ==
    /\ [](error # "null" <=> LastOutcome = "threw")
    /\ [][attempts' # attempts
          => LET parsedConfig == YamlLoad(yamlInput')
             IN  IF parsedConfig.threw
                 THEN mapConfig' = mapConfig /\ error' # "null"
                 ELSE /\ mapConfig' = IF parsedConfig.defined
                                      THEN parsedConfig.value ELSE UndefinedConfig
                      /\ error' = "null"]_vars

\* A parse failed after a configuration had been applied: the configuration
\* is still in place and the error is shown.
ParseOutcomeWitness ==
    /\ attempts >= 2 /\ LastOutcome = "threw"
    /\ mapConfig = DefaultYamlConfig /\ error # "null"

\* The tags of the spelling of loop k in s, and the iterations the loop has
\* performed.
TagsOfSpelling(k, s) == {p \in 1..Len(s) : s[p][1] = TagRegexes[k]}

Iterations(k) == {i \in 1..Len(history) : history[i].full[1][1] = TagRegexes[k]}

\* C28: each loop of processTagMatches terminates: it never performs more
\* iterations than the content has tags of its spelling, when
\* processMapContent has returned it has performed exactly one per tag, every
\* iteration leaves one tag fewer in the working copy, and processMapContent
\* does return.
TagScanTerminates ==
    /\ [](\A k \in 1..Len(TagRegexes) :
             /\ Cardinality(Iterations(k)) <= Cardinality(TagsOfSpelling(k, content))
             /\ Cardinality(TagsOfSpelling(k, processedContent))
                    + Cardinality(Iterations(k))
                = Cardinality(TagsOfSpelling(k, content))
             /\ Returned => Cardinality(Iterations(k))
                                = Cardinality(TagsOfSpelling(k, content)))
    /\ <>Returned

\* processMapContent has returned for a content with two tags of one spelling
\* and a tag of another.
TagScanWitness ==
    /\ variant = "tag" /\ Returned
    /\ Cardinality(Iterations(1)) = 2
    /\ Cardinality(Iterations(2)) + Cardinality(Iterations(3)) >= 1

\* The default of a field: what extractMapParams gives when nothing matched.
Omitted(f) == IF f \in {"latitude", "longitude"} THEN Num(0) ELSE Undefined

\* The attribute string with its attributes written in the opposite order.
Reversed(attrs) == [i \in 1..Len(attrs) |-> attrs[Len(attrs) + 1 - i]]

\* No field is named by two attributes of the string.
OneAttributePerField ==
    \A f \in Fields :
        Cardinality({i \in 1..Len(attributeString) :
                        attributeString[i].name \in Synonyms(f)}) <= 1

\* C29: the value extractMapParams gives for a field comes only from an
\* attribute named exactly by one of the field's synonyms: a field none of
\* whose synonyms names an attribute of the string is omitted (so a width with
\* no height leaves the height omitted), and the height and width extracted
\* from attributes of different fields do not depend on the order the
\* attributes are written in.
AttributesAreIsolated ==
    Len(extracted) >= 1
    => /\ \A f \in Fields :
              (\A i \in 1..Len(attributeString) :
                   attributeString[i].name \notin Synonyms(f))
              => FieldOf(extracted[1], f) = Omitted(f)
       /\ OneAttributePerField
          => /\ ExtractMapParams(Reversed(attributeString)).height
                    = extracted[1].height
             /\ ExtractMapParams(Reversed(attributeString)).width
                    = extracted[1].width

\* The widget showed the error for out-of-range coordinates (no
\* initialization was ever started for it), and a later render gave it valid
\* coordinates.
ValidAfterCoordinateError ==
    /\ life = "mounted" /\ changes > 0
    /\ effects = <<>> /\ loadError # "none"
    /\ ValidCoords(props)

\* C30: the error state is left again: a widget that showed the error for
\* out-of-range coordinates and was then given valid ones eventually shows a
\* live view with the error cleared (unless the host removes it or gives it
\* out-of-range coordinates again first).
ErrorStateIsLeft ==
    ValidAfterCoordinateError
        ~> \/ life = "unmounted"
           \/ ~ValidCoords(props)
           \/ loadError = "none" /\ LiveViews # {}

====
